---- MODULE Spec2Model ----
(***************************************************************************)
(* RemoteWorkers: an authenticated session protocol over WebSocket.        *)
(*                                                                         *)
(* The repository holds two variants of the library:                       *)
(*   src/src/RemoteWorker.mjs  (classes RemoteWorker, Client, RemoteServer)*)
(*   src/unnamed/part_001      (classes RemoteWorker, RemoteServerClient,  *)
(*                              RemoteServer, with logout and numeric      *)
(*                              event kinds)                               *)
(* The variable "variant" says which of the two files is running; every    *)
(* handler is translated once per file where the files differ.             *)
(*                                                                         *)
(* JavaScript is single threaded: every handler (a transport notification  *)
(* or an API call) runs to completion, so each handler is one action.      *)
(***************************************************************************)
EXTENDS Integers, Sequences, FiniteSets, TLC

\* ------------------------------------------------------------------ bounds
\* connections the transport reports during one run
MaxConns == 2
\* calls the application makes on the credential store during one run
MaxCalls == 5

\* ---------------------------------------------------------------- alphabet
\* The two library files.
MJS == "RemoteWorker.mjs"
P001 == "part_001"
Variants == {MJS, P001}

\* Names used as usernames.  "undefined" is an ordinary string; it is the
\* property key JavaScript derives from the value undefined.
Identities == {"alice", "undefined"}
Passwords == {"s3cret", "wrong"}
\* the secret the application registers identities with
Secret == "s3cret"

\* the JavaScript value undefined (an unset field), distinct from every string
UNDEFINED == "<undefined>"

\* obj[key] converts the key to a property key: undefined becomes "undefined"
PropertyKey(k) == IF k = UNDEFINED THEN "undefined" ELSE k

\* #logons and reverseObjectEvents are plain objects ({}): a key they do not
\* hold themselves is looked up in Object.prototype, where names such as
\* these are defined (as functions, not as undefined)
ObjectPrototype == {"toString", "constructor"}

\* packets.LOGIN (part_001) / "login" (RemoteWorker.mjs), and any other type
LOGIN == "login"
DATA == "data"

\* envelopes a remote end can send to the server
LoginPackets == [type : {LOGIN}, username : Identities, password : Passwords]
DataPackets == {[type |-> DATA, username |-> UNDEFINED, password |-> UNDEFINED]}
Packets == LoginPackets \cup DataPackets

VARIABLES
    variant,    \* which library file runs
    logons,     \* RemoteServer.#logons : property key -> Logon
    idCounter,  \* RemoteServerClient.idCounter / clientID
    clients,    \* RemoteServer.clients : Map id -> connection object
    conn,       \* the connection objects ever constructed, in construction order
    socket,     \* per connection object: the transport's socket
    effects,    \* history: what the last handler did, in order
    held,       \* history (SpecHeld): identities tryLogin granted to each connection
    calls,      \* history (SpecStore): the application's calls on the credential store
    peer,       \* (SpecPeer) the RemoteWorker instance of a client process
    peerLog,    \* history (SpecPeer): everything the RemoteWorker did, in order
    codec,      \* (SpecCodec) an envelope, its frame, and the frame decoded
    registry    \* (SpecOn) #events of a peer, a connection and a server

vars == <<variant, logons, idCounter, clients, conn, socket, held, effects, calls,
          peer, peerLog, codec, registry>>

\* -------------------------------------------------------------- effects log
\* One entry per observable step of a handler.
Effect(h, what, hub, event, user, text, ok) ==
    [h |-> h, what |-> what, hub |-> hub, event |-> event, user |-> user,
     text |-> text, ok |-> ok]

\* #emit(event, ...args) on the hub (host, connection or peer) of object h
Emit(h, hub, event, user) == Effect(h, "emit", hub, event, user, "", TRUE)
\* a frame handed to the transport
Sent(h, type, ok, text) == Effect(h, "send", "socket", type, UNDEFINED, text, ok)
\* socket.terminate()
Terminated(h) == Effect(h, "terminate", "socket", "", UNDEFINED, "", TRUE)
\* a call of RemoteServer.tryLogin and its return value
TriedLogin(h, username, password, ret) ==
    Effect(h, "tryLogin", "host", "", username, password, ret)
\* a call of RemoteServer.logout
LoggedOut(h, username) == Effect(h, "logout", "host", "", username, "", TRUE)

\* h = 0 stands for a call made by the application, not by a connection
APP == 0
\* h = -1 stands for the RemoteWorker instance of a client process
PEER == -1

\* RemoteServer.addLogon was called
Registered(username, password) ==
    Effect(APP, "addLogon", "host", "", username, password, TRUE)

\* ------------------------------------------------------- credential store
\* new Logon(username, password)
Logon(username, password) ==
    [username |-> username, password |-> password, active |-> FALSE]

\* a login that does not look at the active flag
Logon_login_NoActiveCheck(l, username, password) ==
    IF l.username # username \/ l.password # password
    THEN [ret |-> FALSE, logon |-> l]
    ELSE [ret |-> TRUE, logon |-> [l EXCEPT !.active = TRUE]]

\* Logon.login: the value returned and the Logon afterwards
Logon_login(l, username, password) ==
    IF l.active \/ l.username # username \/ l.password # password
    THEN [ret |-> FALSE, logon |-> l]
    ELSE [ret |-> TRUE, logon |-> [l EXCEPT !.active = TRUE]]

\* Logon.logout
Logon_logout(l) == [l EXCEPT !.active = FALSE]

\* a registration that keeps the active flag of a credential it replaces
RemoteServer_addLogon_KeepActive(lg, username, password) ==
    [k \in DOMAIN lg \cup {PropertyKey(username)} |->
        IF k = PropertyKey(username)
        THEN [Logon(username, password) EXCEPT
                 !.active = PropertyKey(username) \in DOMAIN lg /\ lg[k].active]
        ELSE lg[k]]

\* RemoteServer.addLogon: this.#logons[username] = new Logon(username, password)
RemoteServer_addLogon(lg, username, password) ==
    [k \in DOMAIN lg \cup {PropertyKey(username)} |->
        IF k = PropertyKey(username) THEN Logon(username, password) ELSE lg[k]]

\* a logout that leaves the credential as it is
RemoteServer_logout_Noop(lg, username) == lg

\* RemoteServer.logout (part_001 only)
RemoteServer_logout(lg, username) ==
    IF PropertyKey(username) \notin DOMAIN lg
    THEN lg
    ELSE [lg EXCEPT ![PropertyKey(username)] = Logon_logout(@)]

\* RemoteServer.tryLogin: the value returned and #logons afterwards.  For a
\* name inherited from Object.prototype this.#logons[username] is not
\* undefined and has no login method: the call throws a TypeError and
\* returns nothing (throws is TRUE, ret is not a value the caller sees).
RemoteServer_tryLogin(lg, username, password) ==
    IF PropertyKey(username) \in DOMAIN lg
    THEN LET r == Logon_login(lg[PropertyKey(username)], username, password)
         IN [ret |-> r.ret, throws |-> FALSE,
             logons |-> [lg EXCEPT ![PropertyKey(username)] = r.logon]]
    ELSE IF PropertyKey(username) \in ObjectPrototype
    THEN [ret |-> FALSE, throws |-> TRUE, logons |-> lg]
    ELSE [ret |-> FALSE, throws |-> FALSE, logons |-> lg]

\* -------------------------------------------------------------- transport
\* The WebSocket library is outside the repository.  What the model takes
\* from it: a socket is OPEN when the server is told of the connection;
\* terminate() destroys it at once (readyState CLOSING) and the close
\* notification follows later, exactly once per socket; frames that had
\* already arrived when terminate() was called (the remote end may have put
\* any number on the wire) are still delivered until the close notification.
OPEN == "OPEN"
CLOSING == "CLOSING"
CLOSED == "CLOSED"

NewSocket == [readyState |-> OPEN]

\* WebSocket.terminate()
WebSocket_terminate(s) ==
    IF s.readyState = CLOSED THEN s ELSE [s EXCEPT !.readyState = CLOSING]

\* the objects that exist
Handles == 1 .. Len(conn)

\* --------------------------------------------------- server-side connection
\* a constructor that gives every connection the same id
RemoteServerClient_new_SameId(id) ==
    [id |-> 0, loggedIn |-> FALSE, username |-> UNDEFINED]

\* new RemoteServerClient(socket, request, server) / new Client(...)
RemoteServerClient_new(id) ==
    [id |-> id, loggedIn |-> FALSE, username |-> UNDEFINED]

\* a send that does not look at the socket's state
RemoteServerClient_send_NoStateCheck(h, s, type, ok, text) == << Sent(h, type, ok, text) >>

\* RemoteServerClient.send / Client.send: the frames handed to the transport
RemoteServerClient_send(h, s, type, ok, text) ==
    IF s.readyState # OPEN THEN << >> ELSE << Sent(h, type, ok, text) >>

\* tryLogin throws out of a message handler: nothing is written, emitted or
\* sent, and the exception leaves the handler
TryLoginThrows(h, c, lg, s, packet) ==
    [conn |-> c, logons |-> lg, socket |-> s,
     effects |-> << TriedLogin(h, packet.username, packet.password, FALSE),
                    Effect(h, "throw", "host", "", packet.username, "TypeError", TRUE) >>]

\* a message handler that terminates the socket before it answers a rejected
\* login
RemoteServerClient_onmessage_TerminateFirst(h, c, lg, s, packet) ==
    IF packet.type = LOGIN
    THEN LET r == RemoteServer_tryLogin(lg, packet.username, packet.password)
         IN IF r.throws THEN TryLoginThrows(h, c, lg, s, packet)
            ELSE IF r.ret
            THEN [conn |-> [c EXCEPT !.loggedIn = TRUE, !.username = packet.username],
                  logons |-> r.logons,
                  socket |-> s,
                  effects |-> << TriedLogin(h, packet.username, packet.password, TRUE),
                                 Emit(h, "connection", "SUCCESSFUL_LOGON", packet.username) >>
                              \o RemoteServerClient_send(h, s, LOGIN, TRUE, "")]
            ELSE [conn |-> c,
                  logons |-> r.logons,
                  socket |-> WebSocket_terminate(s),
                  effects |-> << TriedLogin(h, packet.username, packet.password, FALSE),
                                 Emit(h, "connection", "FAILED_LOGON", packet.username),
                                 Terminated(h) >>
                              \o RemoteServerClient_send(h, WebSocket_terminate(s), LOGIN, FALSE,
                                                         "Invalid credentials")]
    ELSE [conn |-> c, logons |-> lg, socket |-> s,
          effects |-> << Emit(h, "connection", "MESSAGE", UNDEFINED) >>]

\* RemoteServerClient.#onmessage (part_001): the connection object, #logons,
\* the socket and the handler's effects afterwards
RemoteServerClient_onmessage(h, c, lg, s, packet) ==
    IF packet.type = LOGIN
    THEN LET r == RemoteServer_tryLogin(lg, packet.username, packet.password)
         IN IF r.throws THEN TryLoginThrows(h, c, lg, s, packet)
            ELSE IF r.ret
            THEN [conn |-> [c EXCEPT !.loggedIn = TRUE, !.username = packet.username],
                  logons |-> r.logons,
                  socket |-> s,
                  effects |-> << TriedLogin(h, packet.username, packet.password, TRUE),
                                 Emit(h, "connection", "SUCCESSFUL_LOGON", packet.username) >>
                              \o RemoteServerClient_send(h, s, LOGIN, TRUE, "")]
            ELSE [conn |-> c,
                  logons |-> r.logons,
                  socket |-> WebSocket_terminate(s),
                  effects |-> << TriedLogin(h, packet.username, packet.password, FALSE),
                                 Emit(h, "connection", "FAILED_LOGON", packet.username) >>
                              \o RemoteServerClient_send(h, s, LOGIN, FALSE, "Invalid credentials")
                              \o << Terminated(h) >>]
    ELSE [conn |-> c, logons |-> lg, socket |-> s,
          effects |-> << Emit(h, "connection", "MESSAGE", UNDEFINED) >>]

\* Client.#onmessage (RemoteWorker.mjs).  "parentEmit" is the handler that
\* RemoteServer.#addConnection registers: it calls the server's own #emit.
Client_onmessage(h, c, lg, s, packet) ==
    IF packet.type = LOGIN
    THEN LET r == RemoteServer_tryLogin(lg, packet.username, packet.password)
         IN IF r.throws THEN TryLoginThrows(h, c, lg, s, packet)
            ELSE IF r.ret
            THEN [conn |-> [c EXCEPT !.loggedIn = TRUE],
                  logons |-> r.logons,
                  socket |-> s,
                  effects |-> << TriedLogin(h, packet.username, packet.password, TRUE),
                                 Emit(h, "connection", "parentEmit", packet.username),
                                 Emit(h, "host", "successfulLogon", packet.username) >>
                              \o RemoteServerClient_send(h, s, LOGIN, TRUE, "")]
            ELSE [conn |-> c,
                  logons |-> r.logons,
                  socket |-> WebSocket_terminate(s),
                  effects |-> << TriedLogin(h, packet.username, packet.password, FALSE),
                                 Emit(h, "connection", "parentEmit", packet.username),
                                 Emit(h, "host", "failedLogon", packet.username) >>
                              \o RemoteServerClient_send(h, s, LOGIN, FALSE, "Invalid credentials")
                              \o << Terminated(h) >>]
    ELSE [conn |-> c, logons |-> lg, socket |-> s,
          effects |-> << Emit(h, "connection", "message", UNDEFINED) >>]

\* a close handler that leaves the entry in the table
RemoteServerClient_onclose_NoDelete(h, c, lg, cl) ==
    [logons |-> RemoteServer_logout(lg, c.username),
     clients |-> cl,
     effects |-> << LoggedOut(h, c.username), Emit(h, "connection", "CLOSE", UNDEFINED) >>]

\* RemoteServerClient.#onclose (part_001)
RemoteServerClient_onclose(h, c, lg, cl) ==
    [logons |-> RemoteServer_logout(lg, c.username),
     clients |-> [k \in DOMAIN cl \ {c.id} |-> cl[k]],
     effects |-> << LoggedOut(h, c.username), Emit(h, "connection", "CLOSE", UNDEFINED) >>]

\* Client.#onclose (RemoteWorker.mjs)
Client_onclose(h, c, lg, cl) ==
    [logons |-> lg,
     clients |-> [k \in DOMAIN cl \ {c.id} |-> cl[k]],
     effects |-> << Emit(h, "connection", "close", UNDEFINED) >>]

\* ------------------------------------------------------------------ server
\* RemoteServer.#addConnection: what the host emits
RemoteServer_addConnection_emits(h) ==
    IF variant = P001
    THEN << Emit(h, "host", "OPEN", UNDEFINED) >>
    ELSE << Emit(h, "host", "connection", UNDEFINED) >>

\* ------------------------------------------------------------ client peer
CONNECTING == "CONNECTING"

\* no RemoteWorker has been constructed
NoPeer == [username |-> UNDEFINED, password |-> UNDEFINED, readyState |-> CLOSED]

\* new RemoteWorker(host, port, username, password): the socket is connecting
RemoteWorker_new(username, password) ==
    [username |-> username, password |-> password, readyState |-> CONNECTING]

\* frames a server can send to the peer: a login response, or anything else
ResponsePackets == [type : {LOGIN}, success : BOOLEAN]
OtherPackets == {[type |-> DATA, success |-> FALSE]}
ServerPackets == ResponsePackets \cup OtherPackets

\* RemoteWorker.send: the frames handed to the transport
RemoteWorker_send(pr, type, username, password) ==
    IF pr.readyState # OPEN
    THEN << >>
    ELSE << Effect(PEER, "send", "socket", type, username, password, TRUE) >>

\* RemoteWorker.#onopen, in either file
RemoteWorker_onopen(pr) ==
    IF variant = P001
    THEN << Emit(PEER, "peer", "OPEN", UNDEFINED) >>
         \o RemoteWorker_send(pr, LOGIN, pr.username, pr.password)
    ELSE << Emit(PEER, "peer", "open", UNDEFINED),
            Effect(PEER, "on", "peer", "invalidLogin", UNDEFINED, "", TRUE) >>
         \o RemoteWorker_send(pr, LOGIN, pr.username, pr.password)

\* a message handler that sends the login again when it is rejected
RemoteWorker_onmessage_P001_Retry(packet) ==
    IF packet.type = LOGIN
    THEN IF packet.success
         THEN << Emit(PEER, "peer", "SUCCESSFUL_LOGON", UNDEFINED) >>
         ELSE << Emit(PEER, "peer", "FAILED_LOGON", UNDEFINED),
                 Effect(PEER, "send", "socket", LOGIN, peer.username, peer.password, TRUE) >>
    ELSE << Emit(PEER, "peer", "MESSAGE", UNDEFINED) >>

\* RemoteWorker.#onmessage (part_001)
RemoteWorker_onmessage_P001(packet) ==
    IF packet.type = LOGIN
    THEN IF packet.success
         THEN << Emit(PEER, "peer", "SUCCESSFUL_LOGON", UNDEFINED) >>
         ELSE << Emit(PEER, "peer", "FAILED_LOGON", UNDEFINED) >>
    ELSE << Emit(PEER, "peer", "MESSAGE", UNDEFINED) >>

\* RemoteWorker.#onmessage (RemoteWorker.mjs): a rejected login throws
RemoteWorker_onmessage_MJS(packet) ==
    IF packet.type = LOGIN
    THEN IF packet.success
         THEN << Emit(PEER, "peer", "authorized", UNDEFINED) >>
         ELSE << Effect(PEER, "throw", "peer", "", UNDEFINED, "Failed to log in", TRUE) >>
    ELSE << Emit(PEER, "peer", "message", UNDEFINED) >>

\* a close handler that emits nothing
RemoteWorker_onclose_Silent == << >>

\* RemoteWorker.#onclose, in either file
RemoteWorker_onclose ==
    IF variant = P001
    THEN << Emit(PEER, "peer", "CLOSE", UNDEFINED) >>
    ELSE << Emit(PEER, "peer", "close", UNDEFINED) >>

\* ------------------------------------------------------- event registration
\* the three classes that have an on(event, callback) method
Roles == {"peer", "connection", "host"}

\* the enum events of part_001, by the names of its members
events == {"OPEN", "CLOSE", "MESSAGE", "ERROR", "SUCCESSFUL_LOGON", "FAILED_LOGON"}

\* the list RemoteWorker.events of RemoteWorker.mjs, per class
RemoteWorker_events(role) ==
    IF role = "host" THEN {"connection", "failedLogon", "successfulLogon"}
    ELSE IF role = "connection" THEN {"message", "close"}
    ELSE {"open", "authorized", "message", "close"}

\* #events of each class before any on(): no callback
NoHandlers == [r \in Roles |-> {}]

\* on(event, callback) of part_001, the same in the three classes: whether it
\* throws, and #events afterwards
on_P001(reg, role, event) ==
    IF event \notin events \cup ObjectPrototype
    THEN [throws |-> TRUE, registry |-> reg]
    ELSE [throws |-> FALSE, registry |-> [reg EXCEPT ![role] = @ \cup {event}]]

\* on(event, callback) of RemoteWorker.mjs, the same in the three classes
on_MJS(reg, role, event) ==
    [throws |-> FALSE, registry |-> [reg EXCEPT ![role] = @ \cup {event}]]

\* ------------------------------------------------------------------ codec
\* encode = TextEncoder.encode(JSON.stringify(packet)) and
\* decode = JSON.parse(TextDecoder.decode(packet)), computed as the runtime
\* computes them.  A JavaScript string is a sequence of UTF-16 code units, a
\* frame is a sequence of bytes, and a value is a tagged record:
\*   null, a boolean, a number, a string, an array (a sequence of values), or
\*   an object (a sequence of <<key, value>> pairs in enumeration order).
\* A finite number is m * 10^e with m not divisible by 10 (0 is m = 0, e = 0);
\* NaN, the infinities and negative zero are the other classes of a Number.
JNull == [k |-> "null"]
JBool(b) == [k |-> "bool", b |-> b]
JNum(m, e) == [k |-> "num", cls |-> "finite", m |-> m, e |-> e]
JNaN == [k |-> "num", cls |-> "NaN", m |-> 0, e |-> 0]
JInf == [k |-> "num", cls |-> "Infinity", m |-> 0, e |-> 0]
JNegInf == [k |-> "num", cls |-> "-Infinity", m |-> 0, e |-> 0]
JNegZero == [k |-> "num", cls |-> "-0", m |-> 0, e |-> 0]
JStr(s) == [k |-> "str", s |-> s]
JArr(a) == [k |-> "arr", a |-> a]
JObj(o) == [k |-> "obj", o |-> o]

\* the code units of the ASCII words the serializer writes
WordNull == <<110, 117, 108, 108>>
WordTrue == <<116, 114, 117, 101>>
WordFalse == <<102, 97, 108, 115, 101>>

RECURSIVE Digits(_)
\* the decimal digits of a natural number, as code units
Digits(n) == IF n < 10 THEN << 48 + n >> ELSE Append(Digits(n \div 10), 48 + (n % 10))

RECURSIVE Zeros(_)
Zeros(n) == IF n <= 0 THEN << >> ELSE << 48 >> \o Zeros(n - 1)

\* Number::toString for a positive finite number with digits ds and exponent e
PositiveToString(ds, e) ==
    LET kk == Len(ds)
        n == kk + e
    IN  IF kk <= n /\ n <= 21 THEN ds \o Zeros(n - kk)
        ELSE IF 0 < n /\ n <= 21
             THEN SubSeq(ds, 1, n) \o << 46 >> \o SubSeq(ds, n + 1, kk)
        ELSE IF -6 < n /\ n <= 0
             THEN << 48, 46 >> \o Zeros(-n) \o ds
        ELSE (IF kk = 1 THEN ds ELSE << ds[1], 46 >> \o SubSeq(ds, 2, kk))
             \o << 101 >>
             \o (IF n - 1 < 0 THEN << 45 >> \o Digits(1 - n) ELSE << 43 >> \o Digits(n - 1))

\* Number::toString: negative zero prints as "0"
NumberToString(v) ==
    IF v.cls = "-0" \/ v.m = 0 THEN << 48 >>
    ELSE IF v.m < 0 THEN << 45 >> \o PositiveToString(Digits(-v.m), v.e)
    ELSE PositiveToString(Digits(v.m), v.e)

\* one hexadecimal digit, lower case, as a code unit
Hex(d) == IF d < 10 THEN 48 + d ELSE 87 + d

\* the escape \uXXXX of one code unit
UnicodeEscape(c) ==
    << 92, 117, Hex(c \div 4096), Hex((c \div 256) % 16), Hex((c \div 16) % 16), Hex(c % 16) >>

IsLeadSurrogate(c) == 55296 <= c /\ c <= 56319
IsTrailSurrogate(c) == 56320 <= c /\ c <= 57343

\* QuoteJSONString without the escapes of the quote and the backslash
QuoteCodeUnit_NoEscape(s, i) ==
    LET c == s[i]
    IN  IF c < 32 THEN UnicodeEscape(c) ELSE << c >>

\* QuoteJSONString, one code unit: the quote, the backslash and the control
\* characters are escaped, and so is a surrogate that has no partner
QuoteCodeUnit(s, i) ==
    LET c == s[i]
    IN  IF c = 34 THEN << 92, 34 >>
        ELSE IF c = 92 THEN << 92, 92 >>
        ELSE IF c = 8 THEN << 92, 98 >>
        ELSE IF c = 9 THEN << 92, 116 >>
        ELSE IF c = 10 THEN << 92, 110 >>
        ELSE IF c = 12 THEN << 92, 102 >>
        ELSE IF c = 13 THEN << 92, 114 >>
        ELSE IF c < 32 THEN UnicodeEscape(c)
        ELSE IF IsLeadSurrogate(c)
             THEN IF i < Len(s) /\ IsTrailSurrogate(s[i + 1]) THEN << c >> ELSE UnicodeEscape(c)
        ELSE IF IsTrailSurrogate(c)
             THEN IF i > 1 /\ IsLeadSurrogate(s[i - 1]) THEN << c >> ELSE UnicodeEscape(c)
        ELSE << c >>

RECURSIVE Concat(_, _, _)
\* the sequences ss[lo], ..., ss[hi] joined in this order
Concat(ss, lo, hi) ==
    IF lo > hi THEN << >>
    ELSE IF lo = hi THEN ss[lo]
    ELSE Concat(ss, lo, (lo + hi) \div 2) \o Concat(ss, (lo + hi) \div 2 + 1, hi)

\* the code units from index i on, each quoted
QuoteFrom(s, i) == Concat([j \in 1 .. Len(s) |-> QuoteCodeUnit(s, j)], i, Len(s))

\* QuoteJSONString
QuoteJSONString(s) == << 34 >> \o QuoteFrom(s, 1) \o << 34 >>

RECURSIVE JSON_stringify(_)
RECURSIVE SerializeJSONArray(_, _)
RECURSIVE SerializeJSONObject(_, _)

\* SerializeJSONArray: the elements from index i on, separated by commas
SerializeJSONArray(a, i) ==
    IF i > Len(a) THEN << >>
    ELSE (IF i > 1 THEN << 44 >> ELSE << >>) \o JSON_stringify(a[i]) \o SerializeJSONArray(a, i + 1)

\* SerializeJSONObject: the properties from index i on, separated by commas
SerializeJSONObject(o, i) ==
    IF i > Len(o) THEN << >>
    ELSE (IF i > 1 THEN << 44 >> ELSE << >>)
         \o QuoteJSONString(o[i][1]) \o << 58 >> \o JSON_stringify(o[i][2])
         \o SerializeJSONObject(o, i + 1)

\* JSON.stringify (SerializeJSONProperty): a number that is not finite is
\* written as null
JSON_stringify(v) ==
    IF v.k = "null" THEN WordNull
    ELSE IF v.k = "bool" THEN (IF v.b THEN WordTrue ELSE WordFalse)
    ELSE IF v.k = "num"
         THEN IF v.cls \in {"NaN", "Infinity", "-Infinity"} THEN WordNull ELSE NumberToString(v)
    ELSE IF v.k = "str" THEN QuoteJSONString(v.s)
    ELSE IF v.k = "arr" THEN << 91 >> \o SerializeJSONArray(v.a, 1) \o << 93 >>
    ELSE << 123 >> \o SerializeJSONObject(v.o, 1) \o << 125 >>

\* the UTF-8 bytes of one code point
Utf8(cp) ==
    IF cp < 128 THEN << cp >>
    ELSE IF cp < 2048 THEN << 192 + (cp \div 64), 128 + (cp % 64) >>
    ELSE IF cp < 65536
         THEN << 224 + (cp \div 4096), 128 + ((cp \div 64) % 64), 128 + (cp % 64) >>
    ELSE << 240 + (cp \div 262144), 128 + ((cp \div 4096) % 64),
            128 + ((cp \div 64) % 64), 128 + (cp % 64) >>

\* TextEncoder.encode, the bytes written for the code unit at index i: a
\* surrogate pair is one code point, written at its first unit; a surrogate
\* without a partner is replaced by U+FFFD
TextEncoder_encode_at(s, i) ==
    IF IsLeadSurrogate(s[i]) /\ i < Len(s) /\ IsTrailSurrogate(s[i + 1])
    THEN Utf8(65536 + (s[i] - 55296) * 1024 + (s[i + 1] - 56320))
    ELSE IF IsTrailSurrogate(s[i]) /\ i > 1 /\ IsLeadSurrogate(s[i - 1])
    THEN << >>
    ELSE IF IsLeadSurrogate(s[i]) \/ IsTrailSurrogate(s[i])
    THEN Utf8(65533)
    ELSE Utf8(s[i])

TextEncoder_encode_from(s, i) ==
    Concat([j \in 1 .. Len(s) |-> TextEncoder_encode_at(s, j)], i, Len(s))

TextEncoder_encode(s) == TextEncoder_encode_from(s, 1)

\* encode(packet)
encode(packet) == TextEncoder_encode(JSON_stringify(packet))

IsContinuation(b) == 128 <= b /\ b <= 191

\* the number of bytes the lead byte b announces, 0 if b cannot lead
Utf8Needed(b) ==
    IF b < 128 THEN 1
    ELSE IF 194 <= b /\ b <= 223 THEN 2
    ELSE IF 224 <= b /\ b <= 239 THEN 3
    ELSE IF 240 <= b /\ b <= 244 THEN 4
    ELSE 0

\* the second byte a lead byte admits: no overlong forms, no surrogates,
\* nothing above U+10FFFF
SecondByteOk(lead, b) ==
    IF lead = 224 THEN 160 <= b /\ b <= 191
    ELSE IF lead = 237 THEN 128 <= b /\ b <= 159
    ELSE IF lead = 240 THEN 144 <= b /\ b <= 191
    ELSE IF lead = 244 THEN 128 <= b /\ b <= 143
    ELSE IsContinuation(b)

\* how many bytes of the sequence that starts at i are well formed
Utf8Good(f, i) ==
    LET n == Utf8Needed(f[i])
        ok(t) == /\ i + t <= Len(f)
                 /\ IF t = 1 THEN SecondByteOk(f[i], f[i + 1]) ELSE IsContinuation(f[i + t])
    IN  IF n = 0 THEN 0
        ELSE IF n = 1 THEN 1
        ELSE IF ~ok(1) THEN 1
        ELSE IF n = 2 THEN 2
        ELSE IF ~ok(2) THEN 2
        ELSE IF n = 3 THEN 3
        ELSE IF ~ok(3) THEN 3
        ELSE 4

\* the code point of the well-formed sequence of n bytes that starts at i
Utf8CodePoint(f, i, n) ==
    IF n = 1 THEN f[i]
    ELSE IF n = 2 THEN (f[i] - 192) * 64 + (f[i + 1] - 128)
    ELSE IF n = 3 THEN (f[i] - 224) * 4096 + (f[i + 1] - 128) * 64 + (f[i + 2] - 128)
    ELSE (f[i] - 240) * 262144 + (f[i + 1] - 128) * 4096
         + (f[i + 2] - 128) * 64 + (f[i + 3] - 128)

\* the UTF-16 code units of one code point
Utf16(cp) ==
    IF cp < 65536 THEN << cp >>
    ELSE << 55296 + ((cp - 65536) \div 1024), 56320 + ((cp - 65536) % 1024) >>

\* the index after the run that starts at i in s and ends before the first of
\* the indices stops (all of them >= i), or at the end of s
RunEnd(s, i, stops) ==
    IF stops = {} THEN Len(s) + 1 ELSE CHOOSE k \in stops : \A m \in stops : k <= m

RECURSIVE TextDecoder_decode_from(_, _)
\* TextDecoder.decode (utf-8, not fatal): an ill-formed sequence becomes U+FFFD
TextDecoder_decode_from(f, i) ==
    IF i > Len(f) THEN << >>
    ELSE IF f[i] < 128
    THEN \* a run of ASCII bytes: each is the code unit it encodes
         LET j == RunEnd(f, i, {k \in i .. Len(f) : f[k] >= 128})
         IN  SubSeq(f, i, j - 1) \o TextDecoder_decode_from(f, j)
    ELSE LET n == Utf8Needed(f[i])
             g == Utf8Good(f, i)
         IN  IF n > 0 /\ g = n
             THEN Utf16(Utf8CodePoint(f, i, n)) \o TextDecoder_decode_from(f, i + n)
             ELSE << 65533 >> \o TextDecoder_decode_from(f, i + (IF g = 0 THEN 1 ELSE g))

\* TextDecoder.decode: a leading byte order mark is dropped
TextDecoder_decode(f) ==
    IF Len(f) >= 3 /\ f[1] = 239 /\ f[2] = 187 /\ f[3] = 191
    THEN TextDecoder_decode_from(f, 4)
    ELSE TextDecoder_decode_from(f, 1)

\* JSON.parse.  A parse result is [ok, v, i]: whether the text parsed, the
\* value, and the index after it; a text that does not parse is a SyntaxError.
SyntaxError == [ok |-> FALSE, v |-> JNull, i |-> 0]
Parsed(v, i) == [ok |-> TRUE, v |-> v, i |-> i]

IsDigit(c) == 48 <= c /\ c <= 57

RECURSIVE SkipWhitespace(_, _)
SkipWhitespace(s, i) ==
    IF i <= Len(s) /\ s[i] \in {9, 10, 13, 32} THEN SkipWhitespace(s, i + 1) ELSE i

\* whether the word w stands in s at index i
HasWord(s, i, w) ==
    /\ i + Len(w) - 1 <= Len(s)
    /\ \A j \in 1 .. Len(w) : s[i + j - 1] = w[j]

\* the value of a hexadecimal digit, -1 for any other code unit
HexValue(c) ==
    IF IsDigit(c) THEN c - 48
    ELSE IF 65 <= c /\ c <= 70 THEN c - 55
    ELSE IF 97 <= c /\ c <= 102 THEN c - 87
    ELSE 0 - 1

\* the code unit a one-letter escape stands for, -1 if there is none
SimpleEscape(c) ==
    IF c \in {34, 92, 47} THEN c
    ELSE IF c = 98 THEN 8
    ELSE IF c = 102 THEN 12
    ELSE IF c = 110 THEN 10
    ELSE IF c = 114 THEN 13
    ELSE IF c = 116 THEN 9
    ELSE 0 - 1

RECURSIVE ParseChars(_, _, _)
\* the rest of a string literal, after its opening quote
ParseChars(s, i, acc) ==
    IF i > Len(s) THEN SyntaxError
    ELSE IF s[i] = 34 THEN Parsed(acc, i + 1)
    ELSE IF s[i] < 32 THEN SyntaxError
    ELSE IF s[i] # 92
    THEN \* a run of characters that stand for themselves
         LET j == RunEnd(s, i, {k \in i .. Len(s) : s[k] \in {34, 92} \/ s[k] < 32})
         IN  ParseChars(s, j, acc \o SubSeq(s, i, j - 1))
    ELSE IF i + 1 > Len(s) THEN SyntaxError
    ELSE IF s[i + 1] = 117
         THEN IF /\ i + 5 <= Len(s)
                 /\ \A j \in 2 .. 5 : HexValue(s[i + j]) >= 0
              THEN ParseChars(s, i + 6,
                     Append(acc, HexValue(s[i + 2]) * 4096 + HexValue(s[i + 3]) * 256
                                 + HexValue(s[i + 4]) * 16 + HexValue(s[i + 5])))
              ELSE SyntaxError
    ELSE IF SimpleEscape(s[i + 1]) >= 0
         THEN ParseChars(s, i + 2, Append(acc, SimpleEscape(s[i + 1])))
    ELSE SyntaxError

RECURSIVE DigitsEnd(_, _)
\* the index after the run of digits that starts at i
DigitsEnd(s, i) == IF i <= Len(s) /\ IsDigit(s[i]) THEN DigitsEnd(s, i + 1) ELSE i

RECURSIVE DigitsValue(_, _, _)
\* the natural number written by the digits s[i .. j - 1]
DigitsValue(s, i, j) ==
    IF i >= j THEN 0 ELSE DigitsValue(s, i, j - 1) * 10 + (s[j - 1] - 48)

RECURSIVE Normalize(_, _, _)
\* the Number with value (negative ? -m : m) * 10^e
Normalize(negative, m, e) ==
    IF m = 0 THEN (IF negative THEN JNegZero ELSE JNum(0, 0))
    ELSE IF m % 10 = 0 THEN Normalize(negative, m \div 10, e + 1)
    ELSE JNum(IF negative THEN 0 - m ELSE m, e)

\* a number literal: -? int frac? exp?
ParseNumber(s, i) ==
    LET negative == s[i] = 45
        i1 == IF negative THEN i + 1 ELSE i
        i2 == DigitsEnd(s, i1)
        hasFrac == i2 + 1 <= Len(s) /\ s[i2] = 46
        i3 == IF hasFrac THEN DigitsEnd(s, i2 + 1) ELSE i2
        hasExp == i3 <= Len(s) /\ s[i3] \in {69, 101}
        hasSign == hasExp /\ i3 + 1 <= Len(s) /\ s[i3 + 1] \in {43, 45}
        i4 == IF hasExp THEN (IF hasSign THEN i3 + 2 ELSE i3 + 1) ELSE i3
        i5 == IF hasExp THEN DigitsEnd(s, i4) ELSE i3
        intPart == DigitsValue(s, i1, i2)
        fracLen == IF hasFrac THEN i3 - (i2 + 1) ELSE 0
        mantissa == IF hasFrac
                    THEN DigitsValue(s, i1, i2) * (10 ^ fracLen) + DigitsValue(s, i2 + 1, i3)
                    ELSE intPart
        exponent == IF hasExp
                    THEN IF hasSign /\ s[i3 + 1] = 45
                         THEN 0 - DigitsValue(s, i4, i5)
                         ELSE DigitsValue(s, i4, i5)
                    ELSE 0
    IN  IF i2 = i1 THEN SyntaxError
        ELSE IF i2 - i1 > 1 /\ s[i1] = 48 THEN SyntaxError
        ELSE IF i2 <= Len(s) /\ s[i2] = 46 /\ i3 = i2 + 1 THEN SyntaxError
        ELSE IF i2 <= Len(s) /\ s[i2] = 46 /\ ~hasFrac THEN SyntaxError
        ELSE IF hasExp /\ i5 = i4 THEN SyntaxError
        ELSE Parsed(Normalize(negative, mantissa, exponent - fracLen), i5)

\* define the property named key, in place if the object already has it
DefineProperty(o, key, v) ==
    IF \E j \in 1 .. Len(o) : o[j][1] = key
    THEN [j \in 1 .. Len(o) |-> IF o[j][1] = key THEN << key, v >> ELSE o[j]]
    ELSE Append(o, << key, v >>)

RECURSIVE ParseValue(_, _)
RECURSIVE ParseElements(_, _, _)
RECURSIVE ParseMembers(_, _, _)

\* the elements of an array literal, after its opening bracket or a comma
ParseElements(s, i, acc) ==
    LET r == ParseValue(s, i)
        j == SkipWhitespace(s, r.i)
    IN  IF ~r.ok \/ j > Len(s) THEN SyntaxError
        ELSE IF s[j] = 44 THEN ParseElements(s, j + 1, Append(acc, r.v))
        ELSE IF s[j] = 93 THEN Parsed(JArr(Append(acc, r.v)), j + 1)
        ELSE SyntaxError

\* the members of an object literal, after its opening brace or a comma
ParseMembers(s, i, acc) ==
    LET i1 == SkipWhitespace(s, i)
        key == IF i1 <= Len(s) /\ s[i1] = 34 THEN ParseChars(s, i1 + 1, << >>) ELSE SyntaxError
        i2 == SkipWhitespace(s, key.i)
        r == IF key.ok /\ i2 <= Len(s) /\ s[i2] = 58 THEN ParseValue(s, i2 + 1) ELSE SyntaxError
        j == SkipWhitespace(s, r.i)
    IN  IF ~r.ok \/ j > Len(s) THEN SyntaxError
        ELSE IF s[j] = 44 THEN ParseMembers(s, j + 1, DefineProperty(acc, key.v, r.v))
        ELSE IF s[j] = 125 THEN Parsed(JObj(DefineProperty(acc, key.v, r.v)), j + 1)
        ELSE SyntaxError

\* one JSON value, with the whitespace before it
ParseValue(s, i) ==
    LET j == SkipWhitespace(s, i)
    IN  IF j > Len(s) THEN SyntaxError
        ELSE IF HasWord(s, j, WordNull) THEN Parsed(JNull, j + 4)
        ELSE IF HasWord(s, j, WordTrue) THEN Parsed(JBool(TRUE), j + 4)
        ELSE IF HasWord(s, j, WordFalse) THEN Parsed(JBool(FALSE), j + 5)
        ELSE IF s[j] = 34
             THEN LET r == ParseChars(s, j + 1, << >>)
                  IN  IF r.ok THEN Parsed(JStr(r.v), r.i) ELSE SyntaxError
        ELSE IF s[j] = 45 \/ IsDigit(s[j]) THEN ParseNumber(s, j)
        ELSE IF s[j] = 91
             THEN LET j1 == SkipWhitespace(s, j + 1)
                  IN  IF j1 <= Len(s) /\ s[j1] = 93 THEN Parsed(JArr(<< >>), j1 + 1)
                      ELSE ParseElements(s, j + 1, << >>)
        ELSE IF s[j] = 123
             THEN LET j1 == SkipWhitespace(s, j + 1)
                  IN  IF j1 <= Len(s) /\ s[j1] = 125 THEN Parsed(JObj(<< >>), j1 + 1)
                      ELSE ParseMembers(s, j + 1, << >>)
        ELSE SyntaxError

\* JSON.parse: one value and nothing after it but whitespace
JSON_parse(s) ==
    LET r == ParseValue(s, 1)
    IN  IF r.ok /\ SkipWhitespace(s, r.i) > Len(s) THEN Parsed(r.v, r.i) ELSE SyntaxError

\* decode(packet)
decode(packet) == JSON_parse(TextDecoder_decode(packet))

\* no envelope has been handed to the codec
NoCodec == [pc |-> "none", envelope |-> JNull, frame |-> << >>, decoded |-> SyntaxError]

\* the envelope send() builds: { type: packetType, payload: payload }
Envelope(packetType, payload) ==
    JObj(<< << <<116, 121, 112, 101>>, packetType >>,
            << <<112, 97, 121, 108, 111, 97, 100>>, payload >> >>)

\* ------------------------------------------------- frames at the server
\* property names and strings of an envelope, as UTF-16 code units
KeyType == <<116, 121, 112, 101>>
KeyPayload == <<112, 97, 121, 108, 111, 97, 100>>
KeyUsername == <<117, 115, 101, 114, 110, 97, 109, 101>>
KeyPassword == <<112, 97, 115, 115, 119, 111, 114, 100>>
Text(name) ==
    CASE name = "alice" -> <<97, 108, 105, 99, 101>>
      [] name = "undefined" -> <<117, 110, 100, 101, 102, 105, 110, 101, 100>>
      [] name = "s3cret" -> <<115, 51, 99, 114, 101, 116>>
      [] name = "wrong" -> <<119, 114, 111, 110, 103>>
      [] name = "login" -> <<108, 111, 103, 105, 110>>

\* the value of a property that is not there
JUndefined == [k |-> "undefined"]

\* v[key] for a value other than null and undefined: a property of an object,
\* undefined on anything else (none of the keys read here is inherited)
Get(v, key) ==
    IF v.k = "obj" /\ \E j \in DOMAIN v.o : v.o[j][1] = key
    THEN v.o[CHOOSE j \in DOMAIN v.o : v.o[j][1] = key][2]
    ELSE JUndefined

\* packets.LOGIN (part_001: the number 0) / "login" (RemoteWorker.mjs)
LoginType(v) == IF v = P001 THEN JNum(0, 0) ELSE JStr(Text("login"))

\* packet.type === packets.LOGIN / packet.type === "login"; -0 === 0
IsLoginType(v, t) ==
    IF v = P001
    THEN t.k = "num" /\ t.cls \in {"finite", "-0"} /\ t.m = 0
    ELSE t = JStr(Text("login"))

\* a decoded username or password as the name the credential store sees;
\* the frames considered carry these strings or leave the property out
NameOf(v) ==
    IF v.k = "str" /\ \E n \in Identities \cup Passwords : Text(n) = v.s
    THEN CHOOSE n \in Identities \cup Passwords : Text(n) = v.s
    ELSE UNDEFINED

\* decode(message.data) was called in a message handler, and returned or threw
Decoded(h, ok) == Effect(h, "decode", "connection", "", UNDEFINED, "", ok)
\* an exception leaves the message handler
Thrown(h, c, lg, s, ok, error) ==
    [conn |-> c, logons |-> lg, socket |-> s,
     effects |-> << Decoded(h, ok),
                    Effect(h, "throw", "connection", "", UNDEFINED, error, TRUE) >>]

\* #onmessage(message) from the frame on, d being what decode(message.data)
\* gave: the reads of packet.type and packet.payload.username / .password,
\* then the handler of the file that runs
RemoteServerClient_onframe(v, h, c, lg, s, d) ==
    LET handled(packet) ==
            LET r == IF v = P001
                     THEN RemoteServerClient_onmessage(h, c, lg, s, packet)
                     ELSE Client_onmessage(h, c, lg, s, packet)
            IN  [r EXCEPT !.effects = << Decoded(h, TRUE) >> \o @]
    IN  IF ~d.ok THEN Thrown(h, c, lg, s, FALSE, "SyntaxError")
        ELSE IF d.v = JNull THEN Thrown(h, c, lg, s, TRUE, "TypeError")
        ELSE IF IsLoginType(v, Get(d.v, KeyType))
        THEN LET payload == Get(d.v, KeyPayload)
             IN  IF payload \in {JUndefined, JNull}
                 THEN Thrown(h, c, lg, s, TRUE, "TypeError")
                 ELSE handled([type |-> LOGIN,
                               username |-> NameOf(Get(payload, KeyUsername)),
                               password |-> NameOf(Get(payload, KeyPassword))])
        ELSE handled([type |-> DATA, username |-> UNDEFINED, password |-> UNDEFINED])

\* ----------------------------------------------------------------- actions
\* the state after new RemoteServer(port), running either file
Init ==
    /\ variant \in Variants
    /\ logons = << >>
    /\ idCounter = 0
    /\ clients = << >>
    /\ conn = << >>
    /\ socket = << >>
    /\ held = << >>
    /\ effects = << >>
    /\ calls = << >>
    /\ peer = NoPeer
    /\ peerLog = << >>
    /\ codec = NoCodec
    /\ registry = NoHandlers

\* the application calls server.addLogon(username, password)
AddLogon(username, password) ==
    /\ logons' = RemoteServer_addLogon(logons, username, password)
    /\ effects' = << Registered(username, password) >>
    /\ UNCHANGED <<variant, idCounter, clients, conn, socket>>

\* the transport reports a new connection: RemoteServer.#addConnection,
\* with the constructor of the connection object
AddConnection ==
    /\ Len(conn) < MaxConns
    /\ LET h == Len(conn) + 1
           client == RemoteServerClient_new(idCounter)
       IN /\ idCounter' = idCounter + 1
          /\ conn' = Append(conn, client)
          /\ socket' = Append(socket, NewSocket)
          /\ clients' = [k \in DOMAIN clients \cup {client.id} |->
                            IF k = client.id THEN h ELSE clients[k]]
          /\ effects' = RemoteServer_addConnection_emits(h)
    /\ UNCHANGED <<variant, logons>>

\* the transport delivers a frame to connection h: socket.onmessage
OnMessage(h, packet) ==
    /\ socket[h].readyState # CLOSED
    /\ LET s == socket[h]
           r == IF variant = P001
                THEN RemoteServerClient_onmessage(h, conn[h], logons, s, packet)
                ELSE Client_onmessage(h, conn[h], logons, s, packet)
       IN /\ conn' = [conn EXCEPT ![h] = r.conn]
          /\ logons' = r.logons
          /\ socket' = [socket EXCEPT ![h] = r.socket]
          /\ effects' = r.effects
    /\ UNCHANGED <<variant, idCounter, clients>>

\* the transport reports connection h closed: socket.onclose
OnClose(h) ==
    /\ socket[h].readyState # CLOSED
    /\ LET r == IF variant = P001
                THEN RemoteServerClient_onclose(h, conn[h], logons, clients)
                ELSE Client_onclose(h, conn[h], logons, clients)
       IN /\ logons' = r.logons
          /\ clients' = r.clients
          /\ effects' = r.effects
    /\ socket' = [socket EXCEPT ![h] = [readyState |-> CLOSED]]
    /\ UNCHANGED <<variant, idCounter, conn>>

\* The server with its connections: registrations, connection arrivals,
\* inbound envelopes and closes.
NoHistory == UNCHANGED <<held, calls, peer, peerLog, codec, registry>>

Next ==
    \/ \E u \in Identities : AddLogon(u, Secret) /\ NoHistory
    \/ AddConnection /\ NoHistory
    \/ \E h \in Handles, packet \in Packets : OnMessage(h, packet) /\ NoHistory
    \/ \E h \in Handles : OnClose(h) /\ NoHistory

Spec == Init /\ [][Next]_vars

\* ------------------------------------------- the server, with login history
\* The same server; "held" also records, per connection object, every
\* identity tryLogin has granted to it.
TrackHeld ==
    /\ UNCHANGED <<calls, peer, peerLog, codec, registry>>
    /\ held' = [h \in 1 .. Len(conn') |->
                LET before == IF h \in DOMAIN held THEN held[h] ELSE {}
                IN IF effects' # << >> /\ effects'[1].h = h
                      /\ effects'[1].what = "tryLogin" /\ effects'[1].ok
                   THEN before \cup {effects'[1].user}
                   ELSE before]

NextHeld ==
    \/ \E u \in Identities : AddLogon(u, Secret) /\ TrackHeld
    \/ AddConnection /\ TrackHeld
    \/ \E h \in Handles, packet \in Packets : OnMessage(h, packet) /\ TrackHeld
    \/ \E h \in Handles : OnClose(h) /\ TrackHeld

SpecHeld == Init /\ [][NextHeld]_vars

\* ------------------------------------------------- the client peer alone
\* One RemoteWorker against a server that may send any frames in any order.
\* The transport opens the socket at most once, delivers frames only while
\* it is open, and reports the close once.

\* frames the server sends during one run
MaxFrames == 3

\* entries of the peer's log written by its message handler
Received(log) ==
    {i \in DOMAIN log : \/ log[i].what = "throw"
                        \/ /\ log[i].what = "emit"
                           /\ log[i].event \notin {"OPEN", "open", "CLOSE", "close"}}

InitPeer ==
    /\ variant \in Variants
    /\ logons = << >>
    /\ idCounter = 0
    /\ clients = << >>
    /\ conn = << >>
    /\ socket = << >>
    /\ held = << >>
    /\ effects = << >>
    /\ calls = << >>
    /\ \E u \in Identities, p \in Passwords : peer = RemoteWorker_new(u, p)
    /\ peerLog = << >>
    /\ codec = NoCodec
    /\ registry = NoHandlers

ServerIdle ==
    UNCHANGED <<variant, logons, idCounter, clients, conn, socket, held, calls, codec,
                registry>>

\* the transport reports the socket open: webSocket.onopen
PeerOpen ==
    /\ peer.readyState = CONNECTING
    /\ peer' = [peer EXCEPT !.readyState = OPEN]
    /\ effects' = RemoteWorker_onopen(peer')
    /\ peerLog' = peerLog \o effects'
    /\ ServerIdle

\* the transport delivers a frame: webSocket.onmessage
PeerMessage(packet) ==
    /\ peer.readyState = OPEN
    /\ Cardinality(Received(peerLog)) < MaxFrames
    /\ effects' = IF variant = P001
                  THEN RemoteWorker_onmessage_P001(packet)
                  ELSE RemoteWorker_onmessage_MJS(packet)
    /\ peerLog' = peerLog \o effects'
    /\ UNCHANGED peer
    /\ ServerIdle

\* the transport reports the socket closed: webSocket.onclose
PeerClose ==
    /\ peer.readyState # CLOSED
    /\ peer' = [peer EXCEPT !.readyState = CLOSED]
    /\ effects' = RemoteWorker_onclose
    /\ peerLog' = peerLog \o effects'
    /\ ServerIdle

NextPeer ==
    \/ PeerOpen
    \/ \E packet \in ServerPackets : PeerMessage(packet)
    \/ PeerClose

SpecPeer == InitPeer /\ [][NextPeer]_vars

\* ------------------------------------------------ sends by the application
\* Either the server with its connections or one client peer, as above, and
\* the application calling send(packetType, payload) at any moment.

\* the application called send on object h
CalledSend(h) == Effect(h, "call send", "socket", DATA, UNDEFINED, "", TRUE)

InitSend ==
    /\ variant \in Variants
    /\ logons = << >>
    /\ idCounter = 0
    /\ clients = << >>
    /\ conn = << >>
    /\ socket = << >>
    /\ held = << >>
    /\ effects = << >>
    /\ calls = << >>
    /\ \/ peer = NoPeer
       \/ \E u \in Identities, p \in Passwords : peer = RemoteWorker_new(u, p)
    /\ peerLog = << >>
    /\ codec = NoCodec
    /\ registry = NoHandlers

\* the application calls send on the connection object h
ConnectionSend(h) ==
    /\ effects' = << CalledSend(h) >> \o RemoteServerClient_send(h, socket[h], DATA, TRUE, "")
    /\ UNCHANGED <<variant, logons, idCounter, clients, conn, socket>>

\* the application calls send on the RemoteWorker
PeerSend ==
    /\ peer # NoPeer
    /\ effects' = << CalledSend(PEER) >> \o RemoteWorker_send(peer, DATA, UNDEFINED, "")
    /\ UNCHANGED <<peer, peerLog>>
    /\ ServerIdle

NextSend ==
    \/ peer = NoPeer /\ \E u \in Identities : AddLogon(u, Secret) /\ NoHistory
    \/ peer = NoPeer /\ AddConnection /\ NoHistory
    \/ \E h \in Handles, packet \in Packets : OnMessage(h, packet) /\ NoHistory
    \/ \E h \in Handles : OnClose(h) /\ NoHistory
    \/ \E h \in Handles : ConnectionSend(h) /\ NoHistory
    \/ PeerOpen
    \/ \E packet \in ServerPackets : PeerMessage(packet)
    \/ PeerClose
    \/ PeerSend

SpecSend == InitSend /\ [][NextSend]_vars

\* ------------------------------------------------- event registration alone
\* The application registers callbacks on a peer, a connection and a server.

\* calls of on() during one run
MaxOn == 2

\* event kinds the application may name: those of either file, and one of
\* neither
OnKinds ==
    events \cup UNION {RemoteWorker_events(r) : r \in Roles} \cup {"bogus", "toString"}

\* callbacks registered so far
Registrations(reg) == {<<r, e>> \in Roles \X OnKinds : e \in reg[r]}

InitOn ==
    /\ variant \in Variants
    /\ logons = << >>
    /\ idCounter = 0
    /\ clients = << >>
    /\ conn = << >>
    /\ socket = << >>
    /\ held = << >>
    /\ effects = << >>
    /\ calls = << >>
    /\ peer = NoPeer
    /\ peerLog = << >>
    /\ codec = NoCodec
    /\ registry = NoHandlers

\* the application calls on(event, callback) on an object of class role
On(role, event) ==
    /\ Cardinality(Registrations(registry)) < MaxOn
    /\ LET r == IF variant = P001
                THEN on_P001(registry, role, event)
                ELSE on_MJS(registry, role, event)
       IN /\ registry' = r.registry
          /\ effects' = << Effect(APP, "on", role, event, UNDEFINED, "", TRUE) >>
                        \o IF r.throws
                           THEN << Effect(APP, "throw", role, event, UNDEFINED,
                                          "Event does not exist.", TRUE) >>
                           ELSE << >>
    /\ UNCHANGED <<variant, logons, idCounter, clients, conn, socket, held, calls,
                   peer, peerLog, codec>>

NextOn == \E role \in Roles, event \in OnKinds : On(role, event)

SpecOn == InitOn /\ [][NextOn]_vars

\* --------------------------------------------------------- the codec alone
\* One envelope is encoded to a frame and the frame is decoded again.

\* elements of an array, properties of an object
MaxLen == 2

Numbers ==
    {JNum(0, 0), JNum(7, 0), JNum(0 - 12, 0), JNum(15, 0 - 1), JNum(1, 21),
     JNegZero, JNaN, JInf, JNegInf}

\* "", a quote, a backslash and a line feed, two letters outside ASCII, a
\* surrogate pair, a surrogate without a partner
Strings ==
    {<< >>, <<97, 34>>, <<92, 10>>, <<233, 8364>>, <<55357, 56832>>, <<55296>>}

Atoms == {JNull, JBool(TRUE), JBool(FALSE)} \cup Numbers \cup {JStr(x) : x \in Strings}

\* the i-th property name: the first needs an escape
Key(i) == IF i = 1 THEN <<34, 107>> ELSE <<96 + i>>

SeqsOver(S, n) == UNION {[1 .. m -> S] : m \in 0 .. n}
ArraysOver(S, n) == {JArr(f) : f \in SeqsOver(S, n)}
ObjectsOver(S, n) == {JObj([i \in DOMAIN f |-> << Key(i), f[i] >>]) : f \in SeqsOver(S, n)}

\* flat payloads, and payloads with one array or object inside another
Flat == Atoms \cup ArraysOver(Atoms, MaxLen) \cup ObjectsOver(Atoms, MaxLen)
Inner == ArraysOver(Atoms, 1) \cup ObjectsOver(Atoms, 1)
Nested == ArraysOver(Inner, 1) \cup ObjectsOver(Inner, 1)
Payloads == Flat \cup Nested

\* packets.LOGIN of part_001 and the "login" of RemoteWorker.mjs
PacketTypes == {JNum(0, 0), JStr(<<108, 111, 103, 105, 110>>)}

InitCodec ==
    /\ variant \in Variants
    /\ logons = << >>
    /\ idCounter = 0
    /\ clients = << >>
    /\ conn = << >>
    /\ socket = << >>
    /\ held = << >>
    /\ effects = << >>
    /\ calls = << >>
    /\ peer = NoPeer
    /\ peerLog = << >>
    /\ \E t \in PacketTypes, p \in Payloads :
           /\ (variant = P001) = (t.k = "num")
           /\ codec = [NoCodec EXCEPT !.pc = "made", !.envelope = Envelope(t, p)]
    /\ registry = NoHandlers

CodecOnly ==
    UNCHANGED <<variant, logons, idCounter, clients, conn, socket, held, effects,
                calls, peer, peerLog, registry>>

\* the sender calls encode(packet)
Encode ==
    /\ codec.pc = "made"
    /\ codec' = [codec EXCEPT !.pc = "encoded", !.frame = encode(codec.envelope)]
    /\ CodecOnly

\* the receiver calls decode(packet) on the frame
Decode ==
    /\ codec.pc = "encoded"
    /\ codec' = [codec EXCEPT !.pc = "decoded", !.decoded = decode(codec.frame)]
    /\ CodecOnly

NextCodec ==
    \/ Encode
    \/ Decode

SpecCodec == InitCodec /\ [][NextCodec]_vars

\* --------------------------------------------- the credential store alone
\* The application calls the store's public methods directly; "calls" keeps
\* each call with the value it returned.

InitStore ==
    /\ variant \in Variants
    /\ logons = << >>
    /\ idCounter = 0
    /\ clients = << >>
    /\ conn = << >>
    /\ socket = << >>
    /\ held = << >>
    /\ effects = << >>
    /\ calls = << >>
    /\ peer = NoPeer
    /\ peerLog = << >>
    /\ codec = NoCodec
    /\ registry = NoHandlers

\* server.addLogon(username, password)
CallAddLogon(username, password) ==
    /\ Len(calls) < MaxCalls
    /\ AddLogon(username, password)
    /\ calls' = Append(calls, effects'[1])
    /\ UNCHANGED <<held, peer, peerLog, codec, registry>>

\* server.tryLogin(username, password)
CallTryLogin(username, password) ==
    /\ Len(calls) < MaxCalls
    /\ LET r == RemoteServer_tryLogin(logons, username, password)
       IN /\ logons' = r.logons
          /\ effects' = << TriedLogin(APP, username, password, r.ret) >>
    /\ calls' = Append(calls, effects'[1])
    /\ UNCHANGED <<variant, idCounter, clients, conn, socket, held, peer, peerLog, codec, registry>>

\* server.logout(username); RemoteWorker.mjs has no such method
CallLogout(username) ==
    /\ Len(calls) < MaxCalls
    /\ variant = P001
    /\ logons' = RemoteServer_logout(logons, username)
    /\ effects' = << LoggedOut(APP, username) >>
    /\ calls' = Append(calls, effects'[1])
    /\ UNCHANGED <<variant, idCounter, clients, conn, socket, held, peer, peerLog, codec, registry>>

NextStore ==
    \/ \E u \in Identities, p \in Passwords : CallAddLogon(u, p)
    \/ \E u \in Identities, p \in Passwords : CallTryLogin(u, p)
    \/ \E u \in Identities : CallLogout(u)

SpecStore == InitStore /\ [][NextStore]_vars

\* ------------------------------------------ the credential store, any state
\* The store's public methods called in any order, with no record of the
\* calls but the last: every state of the store is reached.

\* usernames a login may name: the identities, and one that is not and never
\* will be registered
LoginNames == Identities \cup {"toString"}

\* server.tryLogin(username, password)
TryLogin(username, password) ==
    /\ LET r == RemoteServer_tryLogin(logons, username, password)
       IN /\ logons' = r.logons
          /\ effects' = << TriedLogin(APP, username, password, r.ret) >>
                        \o IF r.throws
                           THEN << Effect(APP, "throw", "host", "", username, "TypeError", TRUE) >>
                           ELSE << >>
    /\ UNCHANGED <<variant, idCounter, clients, conn, socket>>

\* server.logout(username); RemoteWorker.mjs has no such method
Logout(username) ==
    /\ variant = P001
    /\ logons' = RemoteServer_logout(logons, username)
    /\ effects' = << LoggedOut(APP, username) >>
    /\ UNCHANGED <<variant, idCounter, clients, conn, socket>>

NextTry ==
    \/ \E u \in Identities, p \in Passwords : AddLogon(u, p) /\ NoHistory
    \/ \E u \in LoginNames, p \in Passwords : TryLogin(u, p) /\ NoHistory
    \/ \E u \in Identities : Logout(u) /\ NoHistory

SpecTry == InitStore /\ [][NextTry]_vars

\* ------------------------------------------------- the server, from frames
\* The server with connections that receive raw frames: the frames encode
\* turns envelopes into, and byte strings no encode produced.

\* connections that receive raw frames
MaxInbound == 1

\* a login envelope as the client's send builds it
LoginFrame(v, u, p) ==
    encode(Envelope(LoginType(v), JObj(<< << KeyUsername, JStr(Text(u)) >>,
                                          << KeyPassword, JStr(Text(p)) >> >>)))

Frames(v) ==
    {LoginFrame(v, "alice", p) : p \in Passwords}
    \cup {encode(Envelope(JNum(7, 0), JNull)),           \* a data envelope
          encode(JObj(<< << KeyType, LoginType(v) >> >>)), \* a login without payload
          encode(JObj(<< << KeyPayload, JNull >> >>)),     \* an object without type
          <<123, 125>>,                                    \* {}
          <<91, 93>>,                                      \* []
          <<110, 117, 108, 108>>,                          \* null
          <<123>>,                                         \* {   (not JSON)
          <<255>>,                                         \* not UTF-8
          << >>}                                           \* an empty frame

\* the transport delivers frame f to connection h: socket.onmessage
OnFrame(h, f) ==
    /\ socket[h].readyState # CLOSED
    /\ codec' = [NoCodec EXCEPT !.pc = "received", !.frame = f, !.decoded = decode(f)]
    /\ LET r == RemoteServerClient_onframe(variant, h, conn[h], logons, socket[h],
                                           codec'.decoded)
       IN /\ conn' = [conn EXCEPT ![h] = r.conn]
          /\ logons' = r.logons
          /\ socket' = [socket EXCEPT ![h] = r.socket]
          /\ effects' = r.effects
    /\ UNCHANGED <<variant, idCounter, clients, held, calls, peer, peerLog, registry>>

NextFrame ==
    \/ AddLogon("alice", Secret) /\ NoHistory
    \/ AddConnection /\ Len(conn) < MaxInbound /\ NoHistory
    \/ \E h \in Handles, f \in Frames(variant) : OnFrame(h, f)
    \/ \E h \in Handles : OnClose(h) /\ NoHistory

SpecFrame == Init /\ [][NextFrame]_vars

\* ------------------------------------------------------------ vocabulary
\* object h is an entry of the live connection table
InTable(h) == \E k \in DOMAIN clients : clients[k] = h

\* Connection h is logged in under identity u.  part_001 keeps the identity
\* in #username; RemoteWorker.mjs keeps no identity, so there it is every
\* identity tryLogin granted to the connection (specification SpecHeld).
LoggedInUnder(h, u) ==
    /\ conn[h].loggedIn
    /\ IF variant = P001 THEN conn[h].username = u ELSE u \in held[h]

\* the credential of identity u is registered / active
Active(lg, u) == u \in DOMAIN lg /\ lg[u].active
IsRegistered(u) == u \in DOMAIN logons
IsActive(u) == Active(logons, u)

\* event kinds, under either file's names
FailedLogonKinds == {"FAILED_LOGON", "failedLogon"}
SuccessfulLogonKinds == {"SUCCESSFUL_LOGON", "successfulLogon"}
MessageKinds == {"MESSAGE", "message"}
CloseKinds == {"CLOSE", "close"}

\* the entries of an effects log that satisfy a test
Emitted(es, hub, kinds, user) ==
    {i \in DOMAIN es : /\ es[i].what = "emit" /\ es[i].hub = hub
                       /\ es[i].event \in kinds /\ es[i].user = user}
Did(es, what) == {i \in DOMAIN es : es[i].what = what}

\* the effects are those of connection h's message handler
IsOnMessageOf(es, h) ==
    /\ es # << >>
    /\ es[1].h = h
    /\ \/ es[1].what = "tryLogin"
       \/ Emitted(es, "connection", MessageKinds, UNDEFINED) # {}

\* the effects are those of connection h's close handler
IsOnCloseOf(es, h) ==
    /\ es # << >>
    /\ es[1].h = h
    /\ Emitted(es, "connection", CloseKinds, UNDEFINED) # {}

\* the last handler called tryLogin for identity u / and was granted it
IsTry(e, u) == e # << >> /\ e[1].what = "tryLogin" /\ e[1].user = u
IsGrant(e, u) == IsTry(e, u) /\ e[1].ok

\* ------------------------------------------------------------------ C1
\* C1: in every reachable state, for each identity at most one connection
\* of the live connection table is logged in under that identity.
C1_OneSessionPerIdentity ==
    \A u \in Identities :
        Cardinality({h \in Handles : InTable(h) /\ LoggedInUnder(h, u)}) <= 1

\* ------------------------------------------------------------------ C2
\* C2: when two login envelopes for the same identity are processed one
\* after the other (message handlers run to completion, so an interleaving
\* of two notifications is one of their two orders), tryLogin does not
\* return true for both: once it has granted the identity, the next attempt
\* is refused even with the correct secret.
C2_AtMostOneGrant ==
    [][\A u \in Identities :
          (IsGrant(effects, u) /\ IsTry(effects', u)) => ~effects'[1].ok]_vars

\* C2 witness: a connection has just presented the registered secret of an
\* identity that is active while another live connection is logged in, and
\* tryLogin returned false.
C2_Witness ==
    \E u \in Identities :
        /\ IsTry(effects, u) /\ ~effects[1].ok
        /\ IsActive(u) /\ logons[u].password = effects[1].text
        /\ \E h \in Handles : h # effects[1].h /\ InTable(h) /\ conn[h].loggedIn

\* ------------------------------------------------------------------ C3
\* no call between positions i and j of the log is about identity u
Quiet(i, j, u) == \A k \in (i + 1) .. (j - 1) : calls[k].user # u

\* the secret identity u is registered with when call j is made
\* (UNDEFINED when it is not registered)
SecretAt(j, u) ==
    LET regs == {k \in 1 .. (j - 1) : calls[k].what = "addLogon" /\ calls[k].user = u}
    IN IF regs # {}
       THEN calls[CHOOSE k \in regs : \A m \in regs : m <= k].text
       ELSE UNDEFINED

\* C3: for a registered identity u with secret p, the value tryLogin(u, p)
\* returns is decided by the last earlier call about u: true right after
\* the registration, false after a tryLogin(u, p) that returned true (a
\* second login before any logout), and true again after logout(u).
C3_LoginThenFree ==
    \A i, j \in 1 .. Len(calls) :
        LET a == calls[i]
            b == calls[j]
        IN (/\ i < j
            /\ b.what = "tryLogin"
            /\ a.user = b.user
            /\ Quiet(i, j, b.user)
            /\ b.text = SecretAt(j, b.user))
           => CASE a.what = "addLogon" -> b.ok
                [] a.what = "tryLogin" /\ a.ok -> ~b.ok
                [] a.what = "logout" -> b.ok
                [] OTHER -> TRUE

\* C3 witness: after addLogon(u, p), tryLogin(u, p) returned true, the next returned false, then
\* logout(u) was called and tryLogin(u, p) returned true again.
C3_Witness ==
    /\ Len(calls) >= 5
    /\ \E u \in Identities :
        /\ \A k \in 1 .. 5 : calls[k].user = u
        /\ calls[1].what = "addLogon"
        /\ calls[2].what = "tryLogin" /\ calls[2].text = calls[1].text /\ calls[2].ok
        /\ calls[3].what = "tryLogin" /\ calls[3].text = calls[1].text /\ ~calls[3].ok
        /\ calls[4].what = "logout"
        /\ calls[5].what = "tryLogin" /\ calls[5].text = calls[1].text /\ calls[5].ok

\* ------------------------------------------------------------------ C4
\* C4: when the transport reports a connection closed, the credential of
\* every identity the connection logged in under is inactive afterwards (so
\* that a later connection with the correct secret can log in).
C4_CloseFreesIdentity ==
    [][\A h \in Handles :
          IsOnCloseOf(effects', h) => \A u \in held[h] : ~Active(logons', u)]_vars

\* ------------------------------------------------------------------ C5
\* the login tryLogin has just refused names an unknown identity or carries
\* a wrong secret
IsBadCredentials(lg, e) ==
    /\ e.what = "tryLogin" /\ ~e.ok
    /\ (e.user \notin DOMAIN lg \/ lg[e.user].password # e.text)

\* C5: a connection that receives a login with an unknown identity or a
\* wrong secret emits failedLogon, sends the response success=false with
\* reason "Invalid credentials" and terminates the socket; and once a
\* connection has been terminated after a rejection, none of its inbound
\* envelopes is processed any more.
C5_RejectionClosesConnection ==
    [][\A h \in Handles :
          /\ (IsOnMessageOf(effects', h) /\ IsBadCredentials(logons, effects'[1]))
                => /\ Emitted(effects', IF variant = P001 THEN "connection" ELSE "host",
                              FailedLogonKinds, effects'[1].user) # {}
                   /\ \E i \in Did(effects', "send") :
                         /\ effects'[i].event = LOGIN /\ ~effects'[i].ok
                         /\ effects'[i].text = "Invalid credentials"
                   /\ Did(effects', "terminate") # {}
                   /\ socket'[h].readyState # OPEN
          /\ socket[h].readyState = CLOSING => ~IsOnMessageOf(effects', h)]_vars

\* ------------------------------------------------------------------ C7
\* C7: the close handler of a connection runs once, emits close once, and
\* calls logout on the credential store exactly once if a login had
\* succeeded on the connection and not at all otherwise.
C7_CloseOnceLogoutOnce ==
    [][\A h \in Handles :
          IsOnCloseOf(effects', h)
             => /\ socket[h].readyState # CLOSED
                /\ Cardinality(Emitted(effects', "connection", CloseKinds, UNDEFINED)) = 1
                /\ Cardinality(Did(effects', "logout"))
                      = IF conn[h].loggedIn THEN 1 ELSE 0]_vars

\* ------------------------------------------------------------------ C8
\* C8: while connection a is logged in under a registered identity, when
\* connection b presents the same identity with the correct secret, the
\* server emits failedLogon for the identity, b's socket is terminated, no
\* successful login response is handed to b (so b's peer never emits
\* authorized), and a remains logged in.
C8_SecondLoginRejected ==
    [][\A a, b \in Handles, u \in Identities :
          (/\ a # b /\ InTable(a) /\ InTable(b)
           /\ LoggedInUnder(a, u) /\ IsRegistered(u)
           /\ IsOnMessageOf(effects', b) /\ IsTry(effects', u)
           /\ effects'[1].text = logons[u].password)
          => /\ Emitted(effects', "host", FailedLogonKinds, u) # {}
             /\ Did(effects', "terminate") # {}
             /\ socket'[b].readyState # OPEN
             /\ \A i \in Did(effects', "send") : ~effects'[i].ok
             /\ conn'[a].loggedIn /\ InTable(a)']_vars

\* ------------------------------------------------------------------ C9
\* C9: every successful login on a connection invokes the server's handler
\* for successfulLogon with the identity, and every failed login invokes the
\* server's handler for failedLogon with the identity.
C9_HostHearsEveryLogon ==
    [][\A h \in Handles :
          (IsOnMessageOf(effects', h) /\ effects'[1].what = "tryLogin")
             => Emitted(effects', "host",
                        IF effects'[1].ok THEN SuccessfulLogonKinds ELSE FailedLogonKinds,
                        effects'[1].user) # {}]_vars

\* ------------------------------------------------------------------ C6
AuthorizedKinds == {"SUCCESSFUL_LOGON", "authorized"}

\* C6: a client peer never emits message before it has emitted authorized,
\* whatever the server sends and in whatever order.
C6_NoMessageBeforeAuthorized ==
    \A i \in DOMAIN peerLog :
        (peerLog[i].what = "emit" /\ peerLog[i].event \in MessageKinds)
            => \E j \in 1 .. (i - 1) :
                   peerLog[j].what = "emit" /\ peerLog[j].event \in AuthorizedKinds

\* ------------------------------------------------------------------ C10
RECURSIVE AllNumbersFinite(_)
\* no number inside v is NaN, an infinity or negative zero
AllNumbersFinite(v) ==
    IF v.k = "num" THEN v.cls = "finite"
    ELSE IF v.k = "arr" THEN \A i \in DOMAIN v.a : AllNumbersFinite(v.a[i])
    ELSE IF v.k = "obj" THEN \A i \in DOMAIN v.o : AllNumbersFinite(v.o[i][2])
    ELSE TRUE

RoundTrips == codec.decoded.ok /\ codec.decoded.v = codec.envelope

\* C10: for every envelope e whose payload is built from strings, numbers,
\* booleans, null and nested mappings or sequences, decode(encode(e)) = e.
C10_RoundTrip == codec.pc = "decoded" => RoundTrips

\* C10, amended: decode(encode(e)) = e for every such envelope whose numbers
\* are all finite and none of them negative zero.
C10_RoundTripFinite ==
    (codec.pc = "decoded" /\ AllNumbersFinite(codec.envelope)) => RoundTrips

\* an envelope with an object inside an array, a property name and a string
\* that need escapes, and a fraction, has made the round trip
C10_Witness ==
    /\ codec.pc = "decoded"
    /\ AllNumbersFinite(codec.envelope)
    /\ \E x \in {JStr(<<97, 34>>), JNum(15, 0 - 1), JStr(<<55296>>)} :
           codec.envelope.o[2][2] = JArr(<< JObj(<< << Key(1), x >> >>) >>)

\* ------------------------------------------------------------------ C11
\* the transport has reported connection h and has not reported it closed
NotYetClosed(h) == socket[h].readyState # CLOSED

\* C11: in every reachable state the connection table holds exactly the
\* connections the transport has reported and not yet reported closed, each
\* under its own id, so its size is the number of such connections.
C11_TableIsOpenConnections ==
    /\ \A h \in Handles : InTable(h) <=> NotYetClosed(h)
    /\ \A k \in DOMAIN clients : clients[k] \in Handles /\ conn[clients[k]].id = k
    /\ Cardinality(DOMAIN clients) = Cardinality({h \in Handles : NotYetClosed(h)})

\* C11 witness: of two connections reported, one has closed and was removed
\* and the other is still in the table.
C11_Witness ==
    /\ Len(conn) >= 2
    /\ \E a, b \in Handles : ~NotYetClosed(a) /\ ~InTable(a) /\ NotYetClosed(b) /\ InTable(b)
    /\ Cardinality(DOMAIN clients) = 1

\* ------------------------------------------------------------------ C12
\* the event kinds the class of a role recognizes: the shared enum of
\* part_001, the class's own list in RemoteWorker.mjs
RecognizedKinds(role) == IF variant = P001 THEN events ELSE RemoteWorker_events(role)

\* C12: on(kind, handler) on a peer, a connection or a server with a kind
\* outside the role's recognized kinds fails with an error and registers
\* nothing.
C12_UnknownKindRejected ==
    [][\A role \in Roles :
          (/\ effects' # << >> /\ effects'[1].what = "on" /\ effects'[1].hub = role
           /\ effects'[1].event \notin RecognizedKinds(role))
          => /\ Did(effects', "throw") # {}
             /\ registry' = registry]_vars

\* ------------------------------------------------------------------ C13
\* the transport of object h reports the open state
TransportOpen(h) ==
    IF h = PEER THEN peer.readyState = OPEN ELSE socket[h].readyState = OPEN

\* the state of the sessions: everything but the history variables
SessionState == <<variant, logons, idCounter, clients, conn, socket, peer, registry>>

\* C13: send on a peer or on a connection hands one frame to the transport
\* when the transport reports the open state; when it does not, the call
\* hands nothing to the transport, raises no error and leaves the state of
\* every session as it was.
C13_SendOnlyWhenOpen ==
    [][\A h \in Handles \cup {PEER} :
          (effects' # << >> /\ effects'[1] = CalledSend(h))
          => /\ SessionState' = SessionState
             /\ Did(effects', "throw") = {}
             /\ IF TransportOpen(h)
                THEN Cardinality(Did(effects', "send")) = 1
                ELSE Len(effects') = 1]_vars

\* C13 witness: send was called on a connection after its socket was
\* terminated, and on a peer whose socket had closed, and did nothing.
C13_Witness ==
    /\ Len(effects) = 1
    /\ \/ /\ \E h \in Handles : effects[1] = CalledSend(h) /\ socket[h].readyState = CLOSING
       \/ /\ effects[1] = CalledSend(PEER) /\ peer.readyState = CLOSED /\ peerLog # << >>

\* ------------------------------------------------------------------ C14
\* the last step was the call addLogon(u, p)
IsAddLogon(es, u, p) ==
    es # << >> /\ es[1].what = "addLogon" /\ es[1].user = u /\ es[1].text = p

\* C14: addLogon(u, p) leaves the credential of u inactive with secret p
\* whatever it was before, also when a live connection is logged in under u,
\* and leaves every other credential alone; a second addLogon(u, p) right
\* after it would change nothing.
C14_AddLogonResets ==
    [][\A u \in Identities, p \in Passwords :
          IsAddLogon(effects', u, p)
          => /\ DOMAIN logons' = DOMAIN logons \cup {u}
             /\ logons'[u] = [username |-> u, password |-> p, active |-> FALSE]
             /\ \A k \in DOMAIN logons \ {u} : logons'[k] = logons[k]
             /\ RemoteServer_addLogon(logons', u, p) = logons']_vars

\* C14 witness: addLogon has just been called for an identity that a live
\* connection is logged in under, and the credential is inactive.
C14_Witness ==
    \E u \in Identities, h \in Handles :
        /\ IsAddLogon(effects, u, Secret)
        /\ InTable(h) /\ conn[h].loggedIn /\ conn[h].username = u
        /\ ~logons[u].active

\* ------------------------------------------------------------------ C15
\* C15: the identity bound to a connection is unset as long as no login has
\* succeeded on it and, once set, is the same after every later step,
\* whatever envelopes the connection receives.
C15_IdentityFixed ==
    [][\A h \in Handles :
          /\ conn'[h].username # UNDEFINED => conn'[h].loggedIn
          /\ conn[h].username # UNDEFINED => conn'[h].username = conn[h].username]_vars

\* ------------------------------------------------------------------ C16
\* the close events the peer has emitted
PeerCloses == {i \in DOMAIN peerLog : peerLog[i].what = "emit" /\ peerLog[i].event \in CloseKinds}

\* the peer has been told that its login was rejected
PeerRejected ==
    \E i \in DOMAIN peerLog :
        \/ peerLog[i].what = "throw"
        \/ peerLog[i].what = "emit" /\ peerLog[i].event = "FAILED_LOGON"

\* C16: a client peer has emitted close exactly once when the transport has
\* reported the close, and not at all before, whatever state the peer was in
\* (not yet open, login sent, authorized or rejected).
C16_PeerClosesOnce ==
    Cardinality(PeerCloses) = IF peer.readyState = CLOSED /\ peer # NoPeer THEN 1 ELSE 0

\* C16 witness: a peer whose login was rejected has been closed and its
\* last emission is the close event.
C16_Witness ==
    /\ peer # NoPeer /\ peer.readyState = CLOSED
    /\ PeerRejected
    /\ Len(peerLog) \in PeerCloses

\* ------------------------------------------------------------------ C17
\* C17: a connection emits its message event only while it is logged in; an
\* envelope that arrives before a login has succeeded, or after a rejection,
\* is not surfaced as a message.
C17_MessageOnlyWhenLoggedIn ==
    [][\A h \in Handles :
          (/\ effects' # << >> /\ effects'[1].h = h
           /\ Emitted(effects', "connection", MessageKinds, UNDEFINED) # {})
          => conn[h].loggedIn]_vars

\* ------------------------------------------------------------------ C18
OpenKinds == {"OPEN", "open"}

\* the open events the peer has emitted, and the login envelopes it has sent
PeerOpens == {i \in DOMAIN peerLog : peerLog[i].what = "emit" /\ peerLog[i].event \in OpenKinds}
PeerLogins == {i \in DOMAIN peerLog : peerLog[i].what = "send" /\ peerLog[i].event = LOGIN}

\* C18: on the open notification a peer emits open and then sends one login
\* envelope with its configured identity and secret, within the same
\* handler; it sends no login before, and never another one afterwards, also
\* not after a rejected login response.
C18_OneLoginOnOpen ==
    /\ Cardinality(PeerOpens) = IF peer.readyState = CONNECTING \/ PeerCloses = DOMAIN peerLog
                                THEN 0 ELSE 1
    /\ Cardinality(PeerLogins) = Cardinality(PeerOpens)
    /\ \A i \in PeerLogins :
          /\ peerLog[i].user = peer.username /\ peerLog[i].text = peer.password
          /\ \E j \in PeerOpens : j < i /\ \A k \in (j + 1) .. (i - 1) : k \notin Received(peerLog)

\* C18 witness: the peer was rejected, received a further frame, and has
\* sent its login once.
C18_Witness ==
    /\ PeerRejected
    /\ Cardinality(Received(peerLog)) >= 2
    /\ \E i \in Received(peerLog) : i = Len(peerLog)
    /\ Cardinality(PeerLogins) = 1

\* ------------------------------------------------------------------ C19
\* the steps of a handler that emit failedLogon for identity u
FailedLogonEmits(es, u) ==
    {i \in DOMAIN es : es[i].what = "emit" /\ es[i].event \in FailedLogonKinds /\ es[i].user = u}

IsTryLogin(es, u, p) ==
    es # << >> /\ es[1] = TriedLogin(APP, u, p, es[1].ok)

\* C20: tryLogin(u, p) returns false and changes no credential when u is
\* not registered, when p is not the registered secret, or when the
\* credential is already active; otherwise it returns true, sets the
\* credential of u active and changes no other credential.
C20_TryLoginFunction ==
    [][\A u \in LoginNames, p \in Passwords :
          IsTryLogin(effects', u, p)
          => /\ Did(effects', "throw") = {}
             /\ IF u \notin DOMAIN logons \/ logons[u].password # p \/ logons[u].active
                THEN ~effects'[1].ok /\ logons' = logons
                ELSE /\ effects'[1].ok
                     /\ logons' = [logons EXCEPT ![u].active = TRUE]]_vars

\* ------------------------------------------------------------------ C21
\* d is what decode gave for a frame that is not valid encoded structured
\* data, or for one whose value has no type field
NoKind(d) ==
    \/ ~d.ok
    \/ d.v = JNull
    \/ Get(d.v, KeyType) = JUndefined

\* the last handler was a message handler called with a frame
IsOnFrame(es) == es # << >> /\ es[1].what = "decode"

\* C21: when a connection's message handler gets a frame that is not valid
\* encoded structured data, or whose decoded value has no type field, decode
\* fails with an error, no message event is emitted for the frame and no
\* login is tried with it.
C21_DecodeRejects ==
    [][(IsOnFrame(effects') /\ NoKind(codec'.decoded))
       => /\ ~effects'[1].ok
          /\ Emitted(effects', "connection", MessageKinds, UNDEFINED) = {}
          /\ Did(effects', "tryLogin") = {}]_vars

\* ------------------------------------------------------------------ C22
\* the connections of the live table that are logged in under identity u
Holders(u) == {h \in Handles : InTable(h) /\ LoggedInUnder(h, u)}

\* C22: in every reachable state, a credential that is active is held by
\* exactly one connection of the live connection table, logged in under that
\* identity; no identity is active with no live connection holding it.
C22_ActiveHasOneHolder ==
    \A u \in Identities : IsActive(u) => Cardinality(Holders(u)) = 1

\* ------------------------------------------------------------------ C23
\* the last handler rejected a login for identity u on connection h
IsRejection(es, h, u) == IsOnMessageOf(es, h) /\ IsTry(es, u) /\ ~es[1].ok

\* C23: when a connection that was never granted identity u, and whose login
\* for u was just rejected, closes, the credential of u is what it was before
\* the close: an identity held by another connection stays active.
C23_RejectedCloseKeepsCredential ==
    [][\A h \in Handles, u \in Identities :
          (/\ IsRejection(effects, h, u) /\ u \notin held[h]
           /\ IsOnCloseOf(effects', h) /\ IsRegistered(u))
             => logons'[u] = logons[u]]_vars

\* ------------------------------------------------------------------ C24
\* C24: in every reachable state the ids of the connections ever created
\* increase strictly in the order of their arrival (so no two share an id),
\* and the id the next connection will get is above all of them and is not
\* a key of the connection table, so inserting it overwrites no entry.
C24_FreshIds ==
    /\ \A a, b \in Handles : a < b => conn[a].id < conn[b].id
    /\ \A h \in Handles : conn[h].id < idCounter
    /\ idCounter \notin DOMAIN clients

\* C24 witness: the first connection has closed and left the table, and the
\* second, which is in the table, has another and larger id.
C24_Witness ==
    /\ Len(conn) >= 2
    /\ ~InTable(1) /\ InTable(2)
    /\ conn[1].id < conn[2].id
    /\ conn[2].id \in DOMAIN clients /\ clients[conn[2].id] = 2

====
